---- MODULE Spec2Model ----
(***************************************************************************)
(* Model of the accounting engine of investment-tracker-excel:             *)
(*   - load_portfolio_data / process_transactions / calculate_totals       *)
(*     (generate_investment_portfolio.py): the FIFO lot ledger, replayed   *)
(*     once per account and once globally;                                 *)
(*   - compute_portfolio_performance: the replay up to a month's cutoff;   *)
(*   - analyze_sell_transactions / calculate_unrealized_pnl                *)
(*     (generate_sell_transaction_analysis.py): the sell analyzer;         *)
(*   - get_exchange_rates / convert_to_usd / convert_to_eur;               *)
(*   - get_month_range_from_transactions / create_performance_analysis:    *)
(*     the monthly performance series and the valuation behind each row.   *)
(* Numbers the code computes by float division are exact rationals here,   *)
(* a pair <<numerator, denominator>> in lowest terms.                       *)
(***************************************************************************)
EXTENDS Integers, Sequences, FiniteSets, TLC

VARIABLES
    accounts,        \* the portfolio: account name -> list of transactions (input)
    prog,            \* the entry point that runs: "ledger", "cutoff", "analyzer", "fx",
                     \* "performance"
    pc,              \* its position
    target,          \* compute_portfolio_performance: <<target_month, target_year>>
    acct_i,          \* load_portfolio_data: index of the account being replayed
    todo,            \* the transactions the running replay loop has still to process
    done,            \* the transactions it has processed, in processing order
    holdings,        \* the holdings dict of the running replay: symbol -> holding
    cur,             \* the transaction the last loop iteration processed (<<>>: none yet)
    prev,            \* the lots of cur's symbol as they were before that iteration
    acct_holdings,   \* load_portfolio_data: account name -> holdings returned for it
    result,          \* the holdings the entry point returned (global / at the cutoff)
    buy_queue,       \* analyze_sell_transactions: buy_queue of the symbol being analysed
    sell_results,    \* analyze_sell_transactions: sell_analysis_results
    current_prices,  \* get_current_prices: symbol -> <<price>> or <<>> (None)
    exchange_rates,  \* the table get_exchange_rates returned
    fx_call,         \* the last conversion called: [fn, value, currency]
    fx_result,       \* what it returned
    raised,          \* TRUE once an exception has left the entry point
    fetches,         \* get_exchange_rates: how its requests ended (input)
    valuation,       \* compute_portfolio_performance: prices given, value returned
    series,          \* create_performance_analysis: the loop's state and its rows
    calls            \* the calls of the replay entry points that have returned, in
                     \* order, each with what it returned (history)

vars == <<accounts, prog, pc, target, acct_i, todo, done, holdings, cur, prev,
          acct_holdings, result, buy_queue, sell_results, current_prices,
          exchange_rates, fx_call, fx_result, raised, fetches, valuation, series,
          calls>>

----------------------------------------------------------------------------
(* Bounds of the model *)

\* Largest number of transactions in a portfolio (over all its accounts).
MaxTx == 3

Symbols == {"AAA", "BBB"}

\* Account names, in the order of the accounts list of the portfolio file.
AccountNames == <<"acc1", "acc2">>

TxTypes == {"buy", "sell", "dividend"}

----------------------------------------------------------------------------
(* Rational arithmetic: Python floats, without the rounding *)

Abs(x) == IF x < 0 THEN -x ELSE x

RECURSIVE Gcd(_, _)
Gcd(a, b) == IF b = 0 THEN a ELSE Gcd(b, a % b)

\* n/d in lowest terms with a positive denominator.
Rat(n, d) ==
    LET s == IF d < 0 THEN -1 ELSE 1
        g == Gcd(Abs(n), Abs(d))
    IN  <<(s * n) \div g, (s * d) \div g>>

RInt(n) == <<n, 1>>
RMul(a, b) == Rat(a[1] * b[1], a[2] * b[2])
RDiv(a, b) == Rat(a[1] * b[2], a[2] * b[1])
RAdd(a, b) == Rat(a[1] * b[2] + b[1] * a[2], a[2] * b[2])
RSub(a, b) == Rat(a[1] * b[2] - b[1] * a[2], a[2] * b[2])

----------------------------------------------------------------------------
(* Dates.  A date field is the text "dd-mm-YYYY", here <<dd, mm, YYYY>>.   *)

IsLeap(y) == (y % 4 = 0 /\ y % 100 # 0) \/ y % 400 = 0

DaysInMonth(m, y) ==
    IF m = 2 THEN (IF IsLeap(y) THEN 29 ELSE 28)
    ELSE IF m \in {4, 6, 9, 11} THEN 30 ELSE 31

\* datetime.strptime(text, "%d-%m-%Y") succeeds.
Parses(date) ==
    /\ date[2] \in 1..12
    /\ date[1] \in 1..DaysInMonth(date[2], date[3])

\* The datetime strptime returns, as a number that orders like datetimes do.
StrpTime(date) == date[3] * 10000 + date[2] * 100 + date[1]

\* The date text compared as text, day first: the order of a sort whose key is
\* x['date'] instead of the parsed date.
TextBefore(a, b) ==
    \/ a[1] < b[1]
    \/ a[1] = b[1] /\ a[2] < b[2]
    \/ a[1] = b[1] /\ a[2] = b[2] /\ a[3] <= b[3]

RECURSIVE InsertByText(_, _)
InsertByText(tx, sorted) ==
    IF sorted = <<>> THEN <<tx>>
    ELSE LET last == sorted[Len(sorted)]
         IN  IF TextBefore(last.date, tx.date)
             THEN Append(sorted, tx)
             ELSE Append(InsertByText(tx, SubSeq(sorted, 1, Len(sorted) - 1)), last)

RECURSIVE SortByText(_)
SortByText(txs) ==
    IF txs = <<>> THEN <<>>
    ELSE InsertByText(txs[Len(txs)], SortByText(SubSeq(txs, 1, Len(txs) - 1)))

\* list.sort(key=...): a stable sort, here by insertion from the left.
RECURSIVE InsertByDate(_, _)
InsertByDate(tx, sorted) ==
    IF sorted = <<>> THEN <<tx>>
    ELSE LET last == sorted[Len(sorted)]
         IN  IF StrpTime(last.date) <= StrpTime(tx.date)
             THEN Append(sorted, tx)
             ELSE Append(InsertByDate(tx, SubSeq(sorted, 1, Len(sorted) - 1)), last)

RECURSIVE SortByDate(_)
SortByDate(txs) ==
    IF txs = <<>> THEN <<>>
    ELSE InsertByDate(txs[Len(txs)], SortByDate(SubSeq(txs, 1, Len(txs) - 1)))

AllParse(txs) == \A i \in 1..Len(txs) : Parses(txs[i].date)

----------------------------------------------------------------------------
(* Holdings: a dict symbol -> holding, a defaultdict in the code *)

\* The default_factory of the holdings defaultdict.
EmptyHolding ==
    [lots |-> <<>>, total_shares |-> 0, total_cost |-> 0, weighted_avg_cost |-> RInt(0)]

\* holdings_dict[symbol]: reading a missing key of a defaultdict inserts the default.
Touch(h, symbol) == IF symbol \in DOMAIN h THEN h ELSE h @@ (symbol :> EmptyHolding)

RECURSIVE SumShares(_)
SumShares(lots) == IF lots = <<>> THEN 0 ELSE Head(lots).shares + SumShares(Tail(lots))

RECURSIVE SumCost(_)
SumCost(lots) ==
    IF lots = <<>> THEN 0 ELSE Head(lots).shares * Head(lots).price + SumCost(Tail(lots))

\* calculate_totals with the average taken over the number of lots instead of
\* the number of shares.
calculate_totals_per_lot(symbol_data) ==
    LET total_shares == SumShares(symbol_data.lots)
        total_cost == SumCost(symbol_data.lots)
    IN  [symbol_data EXCEPT
            !.total_shares = total_shares,
            !.total_cost = total_cost,
            !.weighted_avg_cost =
                IF total_shares > 0 THEN Rat(total_cost, Len(symbol_data.lots))
                ELSE RInt(0)]

\* calculate_totals(symbol_data): the totals recomputed from the remaining lots.
calculate_totals(symbol_data) ==
    LET total_shares == SumShares(symbol_data.lots)
        total_cost == SumCost(symbol_data.lots)
    IN  [symbol_data EXCEPT
            !.total_shares = total_shares,
            !.total_cost = total_cost,
            !.weighted_avg_cost =
                IF total_shares > 0 THEN Rat(total_cost, total_shares) ELSE RInt(0)]

\* The sell loop taking the newest lot first: lots[-1] and pop() for lots[0]
\* and popleft().
RECURSIVE DrainNewestFirst(_, _)
DrainNewestFirst(lots, remaining_to_sell) ==
    IF remaining_to_sell > 0 /\ lots # <<>>
    THEN LET last == lots[Len(lots)]
             front == SubSeq(lots, 1, Len(lots) - 1)
         IN  IF last.shares <= remaining_to_sell
             THEN DrainNewestFirst(front, remaining_to_sell - last.shares)
             ELSE DrainNewestFirst(
                    Append(front, [last EXCEPT !.shares = @ - remaining_to_sell]), 0)
    ELSE lots

\* The sell loop of process_transactions: while remaining_to_sell > 0 and lots.
RECURSIVE DrainLots(_, _)
DrainLots(lots, remaining_to_sell) ==
    IF remaining_to_sell > 0 /\ lots # <<>>
    THEN IF Head(lots).shares <= remaining_to_sell
         THEN DrainLots(Tail(lots), remaining_to_sell - Head(lots).shares)
         ELSE DrainLots(
                <<[Head(lots) EXCEPT !.shares = @ - remaining_to_sell]>> \o Tail(lots), 0)
    ELSE lots

\* One iteration of the loop of process_transactions on holdings_dict.
ProcessTransaction(holdings_dict, transaction) ==
    LET symbol == transaction.symbol
        h0 == Touch(holdings_dict, symbol)
        lots ==
            CASE transaction.type = "buy" ->
                    Append(h0[symbol].lots,
                           [shares |-> transaction.shares, price |-> transaction.price,
                            date |-> transaction.date])
              [] transaction.type = "sell" -> DrainLots(h0[symbol].lots, transaction.shares)
              [] OTHER -> h0[symbol].lots
    IN  [h0 EXCEPT ![symbol] = calculate_totals([@ EXCEPT !.lots = lots])]

\* A return of the dict as the replay left it, empty holdings included.
KeepAllHoldings(h) == h

\* The return of process_transactions: holdings with total_shares > 0.
PruneHoldings(h) ==
    LET keep == {k \in DOMAIN h : h[k].total_shares > 0}
    IN  [k \in keep |-> h[k]]

EmptyDict == [k \in {} |-> 0]

\* A replay that goes on with the dict the replay before it left behind.
CarriedHoldings == holdings

\* The dict a replay starts from: a defaultdict made for that replay alone
\* (account_holdings_data[name], global_holdings_data, and holdings of
\* compute_portfolio_performance), with no entry.
NewHoldings == EmptyDict

\* The lots of a symbol in a holdings dict, <<>> when the symbol has no entry.
LotsOf(h, symbol) == IF symbol \in DOMAIN h THEN h[symbol].lots ELSE <<>>

----------------------------------------------------------------------------
(* The input portfolios *)

\* The two trading days of the generated transactions.  As text, "15-01-2024"
\* sorts after "10-02-2024"; as a date it is the earlier one.
D1 == <<15, 1, 2024>>
D2 == <<10, 2, 2024>>

Dates == {D1, D2}

\* The price a symbol trades at on a date.
PriceOn(date) == IF date = D1 THEN 100 ELSE 120

Tx(symbol, type, shares, price, fee, date) ==
    [symbol |-> symbol, type |-> type, shares |-> shares, price |-> price,
     fee |-> fee, date |-> date]

\* The transactions the generated portfolios are made of: AAA is bought and sold
\* in one or two shares on either day and is paid a dividend; BBB, a second
\* position, is bought once, sold once and paid a dividend.
TxUniverse ==
    {Tx("AAA", t, n, PriceOn(d), IF t = "sell" THEN 5 ELSE 0, d) :
        t \in {"buy", "sell"}, n \in {1, 2}, d \in Dates}
    \cup {Tx("AAA", "dividend", 1, 3, 0, D2),
          Tx("BBB", "buy", 1, PriceOn(D1), 0, D1),
          Tx("BBB", "sell", 1, PriceOn(D2), 5, D2),
          Tx("BBB", "dividend", 1, 3, 0, D1)}

\* Transactions for the date handling: one dated on the last day of January,
\* one dated after the day of the report (see Now), one dated "31-02-2024",
\* which strptime rejects, next to two of the ordinary ones.
DateUniverse ==
    {Tx("AAA", "buy", 1, PriceOn(D1), 0, D1),
     Tx("AAA", "buy", 2, 100, 0, <<31, 1, 2024>>),
     Tx("AAA", "sell", 1, PriceOn(D2), 5, D2),
     Tx("BBB", "buy", 1, 100, 0, <<31, 2, 2024>>),
     Tx("AAA", "sell", 1, 120, 5, <<20, 3, 2024>>)}

\* The scenario of the specification: Buy 10 @ 100 on 2024-01-05, Buy 5 @ 120 on
\* 2024-02-10, Sell 12 @ 150 on 2024-03-01 with a fee of 5.
Scenario ==
    <<Tx("AAA", "buy", 10, 100, 0, <<5, 1, 2024>>),
      Tx("AAA", "buy", 5, 120, 0, <<10, 2, 2024>>),
      Tx("AAA", "sell", 12, 150, 5, <<1, 3, 2024>>)>>

\* The same holding, sold down to 13 shares, and then a sell of 20.
ScenarioOversell ==
    <<Tx("AAA", "buy", 10, 100, 0, <<5, 1, 2024>>),
      Tx("AAA", "buy", 5, 120, 0, <<10, 2, 2024>>),
      Tx("AAA", "sell", 2, 150, 5, <<1, 3, 2024>>),
      Tx("AAA", "sell", 20, 150, 5, <<2, 3, 2024>>)>>

\* A transaction list split over the accounts.
Split(txs, k) ==
    [a \in {AccountNames[1], AccountNames[2]} |->
        IF a = AccountNames[1] THEN SubSeq(txs, 1, k) ELSE SubSeq(txs, k + 1, Len(txs))]

\* all_transactions: the transactions of the accounts, in the order of the accounts.
RECURSIVE AllTransactions(_, _)
AllTransactions(accts, i) ==
    IF i > Len(AccountNames) THEN <<>>
    ELSE accts[AccountNames[i]] \o AllTransactions(accts, i + 1)

----------------------------------------------------------------------------
(* load_portfolio_data *)

\* The portfolio file: up to MaxTx transactions, split over the accounts.
InitPortfolio ==
    \/ \E n \in 0..MaxTx : \E txs \in [1..n -> TxUniverse] : \E k \in 0..n :
          accounts = Split(txs, k)
    \/ \E n \in 0..MaxTx : \E txs \in [1..n -> DateUniverse] : \E k \in 0..n :
          accounts = Split(txs, k)
    \/ accounts \in {Split(Scenario, Len(Scenario)),
                     Split(ScenarioOversell, Len(ScenarioOversell))}

InitCommon ==
    /\ acct_i = 1
    /\ done = <<>>
    /\ holdings = EmptyDict
    /\ cur = <<>>
    /\ prev = <<>>
    /\ acct_holdings = EmptyDict
    /\ result = EmptyDict
    /\ buy_queue = <<>>
    /\ sell_results = <<>>
    /\ current_prices = EmptyDict
    /\ exchange_rates = EmptyDict
    /\ fx_call = <<>>
    /\ fx_result = <<>>
    /\ raised = FALSE
    /\ fetches = <<>>
    /\ valuation = <<>>
    /\ series = <<>>
    /\ calls = <<>>

InitLedger ==
    /\ InitPortfolio
    /\ InitCommon
    /\ prog = "ledger"
    /\ pc = "account_replay"
    /\ target = <<>>
    /\ todo = accounts[AccountNames[1]]

\* One iteration of the loop of process_transactions, called for an account
\* (line 443) or for the merged list (line 453).
LedgerProcess ==
    /\ prog = "ledger"
    /\ pc \in {"account_replay", "global_replay"}
    /\ todo # <<>>
    /\ holdings' = ProcessTransaction(holdings, Head(todo))
    /\ cur' = Head(todo)
    /\ prev' = LotsOf(holdings, Head(todo).symbol)
    /\ done' = Append(done, Head(todo))
    /\ todo' = Tail(todo)
    /\ UNCHANGED <<calls, accounts, prog, pc, target, acct_i, acct_holdings, result, buy_queue,
                   sell_results, current_prices, exchange_rates, fx_call, fx_result,
                   raised,
                   fetches, valuation, series>>

\* process_transactions returns for an account; the loop of line 442 goes on.
AccountReturn ==
    /\ prog = "ledger"
    /\ pc = "account_replay"
    /\ todo = <<>>
    /\ acct_holdings' = acct_holdings @@ (AccountNames[acct_i] :> PruneHoldings(holdings))
    /\ IF acct_i < Len(AccountNames)
       THEN /\ acct_i' = acct_i + 1
            /\ todo' = accounts[AccountNames[acct_i + 1]]
            /\ pc' = pc
       ELSE /\ acct_i' = acct_i
            /\ todo' = <<>>
            /\ pc' = "sort"
    /\ holdings' = NewHoldings
    /\ done' = <<>>
    /\ cur' = <<>>
    /\ prev' = <<>>
    /\ UNCHANGED <<calls, accounts, prog, target, result, buy_queue, sell_results,
                   current_prices, exchange_rates, fx_call, fx_result, raised,
                   fetches, valuation, series>>

\* all_transactions.sort(...) inside try/except: a date that does not parse
\* leaves the list as it was.
SortOrKeep(txs) == IF AllParse(txs) THEN SortByDate(txs) ELSE txs

\* Lines 445-453: the merged list is sorted and the global replay starts.
SortGlobal ==
    /\ prog = "ledger"
    /\ pc = "sort"
    /\ todo' = SortOrKeep(AllTransactions(accounts, 1))
    /\ pc' = "global_replay"
    /\ UNCHANGED <<calls, accounts, prog, target, acct_i, done, holdings, cur, prev,
                   acct_holdings, result, buy_queue, sell_results, current_prices,
                   exchange_rates, fx_call, fx_result, raised,
                   fetches, valuation, series>>

\* process_transactions returns global_holdings_data.
GlobalReturn ==
    /\ prog = "ledger"
    /\ pc = "global_replay"
    /\ todo = <<>>
    /\ result' = PruneHoldings(holdings)
    /\ calls' = Append(calls, [prog |-> prog, target |-> target,
                               accounts |-> acct_holdings, result |-> result'])
    /\ pc' = "done"
    /\ UNCHANGED <<accounts, prog, target, acct_i, todo, done, holdings, cur, prev,
                   acct_holdings, buy_queue, sell_results, current_prices,
                   exchange_rates, fx_call, fx_result, raised,
                   fetches, valuation, series>>

----------------------------------------------------------------------------
(* compute_portfolio_performance: the replay up to the cutoff of a month *)

\* datetime.now(), the day the report is generated.
Now == <<15, 3, 2024>>

\* The <<target_month, target_year>> the function is called with.
TargetMonths == {<<1, 2024>>, <<3, 2024>>}

\* target_date: now for the current month, else the last day of the month.
TargetDate(tm) ==
    IF tm[2] = Now[3] /\ tm[1] = Now[2] THEN Now
    ELSE <<DaysInMonth(tm[1], tm[2]), tm[1], tm[2]>>

\* The collection with trans_date < target_date: the cutoff day itself left out.
UpToCutoffExclusive(txs, target_date) ==
    SelectSeq(txs, LAMBDA t : Parses(t.date) /\ StrpTime(t.date) < StrpTime(target_date))

\* Lines 1436-1444: the transactions that parse and are dated on or before target_date.
UpToCutoff(txs, target_date) ==
    SelectSeq(txs, LAMBDA t : Parses(t.date) /\ StrpTime(t.date) <= StrpTime(target_date))

\* The sell loop of compute_portfolio_performance (lines 1478-1487).
RECURSIVE CutoffDrain(_, _)
CutoffDrain(lots, remaining_to_sell) ==
    IF remaining_to_sell > 0 /\ lots # <<>>
    THEN IF Head(lots).shares <= remaining_to_sell
         THEN CutoffDrain(Tail(lots), remaining_to_sell - Head(lots).shares)
         ELSE CutoffDrain(
                <<[Head(lots) EXCEPT !.shares = @ - remaining_to_sell]>> \o Tail(lots), 0)
    ELSE lots

\* Lines 1489-1498: the totals of a symbol recomputed from its lots.
CutoffTotals(holding) ==
    LET total_shares == SumShares(holding.lots)
        total_cost == SumCost(holding.lots)
    IN  [holding EXCEPT
            !.total_shares = total_shares,
            !.total_cost = total_cost,
            !.weighted_avg_cost =
                IF total_shares > 0 THEN Rat(total_cost, total_shares) ELSE RInt(0)]

\* One iteration of the replay loop of compute_portfolio_performance (lines 1462-1498).
CutoffApply(h, transaction) ==
    LET symbol == transaction.symbol
        h0 == Touch(h, symbol)
        lots ==
            CASE transaction.type = "buy" ->
                    Append(h0[symbol].lots,
                           [shares |-> transaction.shares, price |-> transaction.price,
                            date |-> transaction.date])
              [] transaction.type = "sell" -> CutoffDrain(h0[symbol].lots, transaction.shares)
              [] OTHER -> h0[symbol].lots
    IN  [h0 EXCEPT ![symbol] = CutoffTotals([@ EXCEPT !.lots = lots])]

InitCutoff ==
    /\ InitPortfolio
    /\ InitCommon
    /\ prog = "cutoff"
    /\ pc = "collect"
    /\ target \in TargetMonths
    /\ todo = <<>>

\* Lines 1416-1450: the transactions up to the cutoff are collected and sorted.
CutoffCollect ==
    /\ prog = "cutoff"
    /\ pc = "collect"
    /\ todo' = SortOrKeep(UpToCutoff(AllTransactions(accounts, 1), TargetDate(target)))
    /\ holdings' = NewHoldings
    /\ pc' = "cutoff_replay"
    /\ UNCHANGED <<calls, accounts, prog, target, acct_i, done, cur, prev,
                   acct_holdings, result, buy_queue, sell_results, current_prices,
                   exchange_rates, fx_call, fx_result, raised,
                   fetches, valuation, series>>

CutoffProcess ==
    /\ prog = "cutoff"
    /\ pc = "cutoff_replay"
    /\ todo # <<>>
    /\ holdings' = CutoffApply(holdings, Head(todo))
    /\ cur' = Head(todo)
    /\ prev' = LotsOf(holdings, Head(todo).symbol)
    /\ done' = Append(done, Head(todo))
    /\ todo' = Tail(todo)
    /\ UNCHANGED <<calls, accounts, prog, pc, target, acct_i, acct_holdings, result, buy_queue,
                   sell_results, current_prices, exchange_rates, fx_call, fx_result,
                   raised,
                   fetches, valuation, series>>

\* Line 1501: the holdings with total_shares > 0 are kept.
CutoffReturn ==
    /\ prog = "cutoff"
    /\ pc = "cutoff_replay"
    /\ todo = <<>>
    /\ result' = PruneHoldings(holdings)
    /\ calls' = Append(calls, [prog |-> prog, target |-> target,
                               accounts |-> acct_holdings, result |-> result'])
    /\ pc' = "done"
    /\ UNCHANGED <<accounts, prog, target, acct_i, todo, done, holdings, cur, prev,
                   acct_holdings, buy_queue, sell_results, current_prices,
                   exchange_rates, fx_call, fx_result, raised,
                   fetches, valuation, series>>

Init == InitLedger \/ InitCutoff

Next ==
    \/ LedgerProcess \/ AccountReturn \/ SortGlobal \/ GlobalReturn
    \/ CutoffCollect \/ CutoffProcess \/ CutoffReturn

Spec == Init /\ [][Next]_vars

----------------------------------------------------------------------------
(* analyze_sell_transactions (generate_sell_transaction_analysis.py) *)

\* Lines 33-36: the transaction with the name of its account added.
WithAccount(t, name) ==
    [symbol |-> t.symbol, type |-> t.type, shares |-> t.shares, price |-> t.price,
     fee |-> t.fee, date |-> t.date, account |-> name]

\* Lines 29-36: all transactions of all accounts, each with its account.
RECURSIVE CollectWithAccount(_, _)
CollectWithAccount(accts, i) ==
    IF i > Len(AccountNames) THEN <<>>
    ELSE LET name == AccountNames[i]
         IN  [j \in 1..Len(accts[name]) |-> WithAccount(accts[name][j], name)]
             \o CollectWithAccount(accts, i + 1)

\* The keys of symbol_transactions, in the order a dict keeps: first appearance.
RECURSIVE SymbolOrder(_)
SymbolOrder(txs) ==
    IF txs = <<>> THEN <<>>
    ELSE LET rest == SymbolOrder(SubSeq(txs, 1, Len(txs) - 1))
             symbol == txs[Len(txs)].symbol
         IN  IF \E i \in 1..Len(rest) : rest[i] = symbol THEN rest ELSE Append(rest, symbol)

\* Lines 41-52: the transactions grouped by symbol, in the order the two nested
\* loops of lines 52 and 56 visit them.
RECURSIVE GroupedBySymbol(_, _)
GroupedBySymbol(txs, symbols) ==
    IF symbols = <<>> THEN <<>>
    ELSE SelectSeq(txs, LAMBDA t : t.symbol = Head(symbols))
         \o GroupedBySymbol(txs, Tail(symbols))

\* The while loop of lines 78-98, on the queue and its copy.
RECURSIVE MatchLots(_, _, _, _, _)
MatchLots(queue, temp_queue, remaining_to_sell, total_cost_basis, shares_processed) ==
    IF remaining_to_sell > 0 /\ temp_queue # <<>>
    THEN LET lot == Head(temp_queue)
         IN  IF lot.shares <= remaining_to_sell
             THEN MatchLots(IF queue # <<>> THEN Tail(queue) ELSE queue,
                            Tail(temp_queue),
                            remaining_to_sell - lot.shares,
                            total_cost_basis + lot.shares * lot.price,
                            shares_processed + lot.shares)
             ELSE MatchLots(IF queue # <<>>
                            THEN <<[lot EXCEPT !.shares = @ - remaining_to_sell]>>
                                 \o Tail(queue)
                            ELSE queue,
                            Tail(temp_queue),
                            0,
                            total_cost_basis + remaining_to_sell * lot.price,
                            shares_processed + remaining_to_sell)
    ELSE [queue |-> queue, total_cost_basis |-> total_cost_basis,
          shares_processed |-> shares_processed]

\* The gain as a fraction of the cost basis, not multiplied by 100.
RealizedPnlRatio(realized_pnl, total_cost_basis) ==
    IF total_cost_basis > 0 THEN Rat(realized_pnl, total_cost_basis) ELSE RInt(0)

\* Line 107: realized_pnl_pct.
RealizedPnlPct(realized_pnl, total_cost_basis) ==
    IF total_cost_basis > 0 THEN Rat(realized_pnl * 100, total_cost_basis) ELSE RInt(0)

\* Lines 100-124: the record of a sell, from what the matching consumed.
SellRecord(transaction, m) ==
    LET gross_proceeds == transaction.shares * transaction.price
        net_proceeds == gross_proceeds - transaction.fee
        realized_pnl == net_proceeds - m.total_cost_basis
    IN  [symbol |-> transaction.symbol,
         sell_date |-> transaction.date,
         account |-> transaction.account,
         shares_sold |-> transaction.shares,
         sell_price |-> transaction.price,
         gross_proceeds |-> gross_proceeds,
         fees |-> transaction.fee,
         net_proceeds |-> net_proceeds,
         weighted_avg_cost |->
            IF m.shares_processed > 0
            THEN Rat(m.total_cost_basis, m.shares_processed) ELSE RInt(0),
         total_cost_basis |-> m.total_cost_basis,
         realized_pnl |-> realized_pnl,
         realized_pnl_pct |-> RealizedPnlPct(realized_pnl, m.total_cost_basis)]

\* The buy_queue after one transaction of a symbol (lines 64-98).
QueueAfter(queue, transaction) ==
    CASE transaction.type = "buy" ->
            Append(queue, [shares |-> transaction.shares, price |-> transaction.price,
                           date |-> transaction.date, account |-> transaction.account])
      [] transaction.type = "sell" ->
            MatchLots(queue, queue, transaction.shares, 0, 0).queue
      [] OTHER -> queue

\* sell_analysis_results after one transaction (lines 68-124).
ResultsAfter(results, queue, transaction) ==
    IF transaction.type = "sell"
    THEN Append(results,
                SellRecord(transaction, MatchLots(queue, queue, transaction.shares, 0, 0)))
    ELSE results

InitAnalyzer ==
    /\ InitPortfolio
    /\ InitCommon
    /\ prog = "analyzer"
    /\ pc = "collect"
    /\ target = <<>>
    /\ todo = <<>>

\* Lines 28-47: the transactions are collected, sorted by date (a date that does
\* not parse raises ValueError out of the function) and grouped by symbol.
AnalyzeCollect ==
    /\ prog = "analyzer"
    /\ pc = "collect"
    /\ LET all_transactions == CollectWithAccount(accounts, 1)
       IN  IF AllParse(all_transactions)
           THEN /\ todo' = GroupedBySymbol(SortByDate(all_transactions),
                                           SymbolOrder(SortByDate(all_transactions)))
                /\ pc' = "analyze"
                /\ raised' = raised
           ELSE /\ todo' = todo
                /\ pc' = "done"
                /\ raised' = TRUE
    /\ UNCHANGED <<calls, accounts, prog, target, acct_i, done, holdings, cur, prev,
                   acct_holdings, result, buy_queue, sell_results, current_prices,
                   exchange_rates, fx_call, fx_result,
                   fetches, valuation, series>>

\* One iteration of the loop of line 56; the first transaction of a symbol finds
\* the empty buy_queue of line 54.
AnalyzeProcess ==
    /\ prog = "analyzer"
    /\ pc = "analyze"
    /\ todo # <<>>
    /\ LET transaction == Head(todo)
           queue == IF cur # <<>> /\ cur.symbol = transaction.symbol
                    THEN buy_queue ELSE <<>>
       IN  /\ buy_queue' = QueueAfter(queue, transaction)
           /\ sell_results' = ResultsAfter(sell_results, queue, transaction)
           /\ prev' = queue
           /\ cur' = transaction
           /\ done' = Append(done, transaction)
    /\ todo' = Tail(todo)
    /\ UNCHANGED <<calls, accounts, prog, pc, target, acct_i, holdings, acct_holdings, result,
                   current_prices, exchange_rates, fx_call, fx_result, raised,
                   fetches, valuation, series>>

\* Line 126: the function returns sell_analysis_results to main.
AnalyzeReturn ==
    /\ prog = "analyzer"
    /\ pc = "analyze"
    /\ todo = <<>>
    /\ pc' = "prices"
    /\ UNCHANGED <<calls, accounts, prog, target, acct_i, todo, done, holdings, cur, prev,
                   acct_holdings, result, buy_queue, sell_results, current_prices,
                   exchange_rates, fx_call, fx_result, raised,
                   fetches, valuation, series>>

----------------------------------------------------------------------------
(* get_current_prices and calculate_unrealized_pnl *)

\* None, and a value that is not None.
None == <<>>
Some(x) == <<x>>

\* What get_current_prices can store for a symbol: None, or the last close.
PriceOptions == {None, Some(0), Some(130)}

\* The symbols main asks prices for: those of the sell records.
SellSymbols(results) == {results[i].symbol : i \in 1..Len(results)}

\* current_prices.get(symbol)
PriceGet(prices, symbol) == IF symbol \in DOMAIN prices THEN prices[symbol] ELSE None

\* The loop body testing `if current_price:` for `if current_price is not None:`,
\* which takes a price of 0 for a missing one.
UnrealizedPnlTruthy(r, prices) ==
    LET current_price == PriceGet(prices, r.symbol)
    IN  IF current_price # None /\ current_price[1] # 0
        THEN LET current_market_value == r.shares_sold * current_price[1]
                 current_net_proceeds == current_market_value - r.fees
                 unrealized_pnl == current_net_proceeds - r.total_cost_basis
             IN  r @@ [current_price |-> Some(current_price[1]),
                       current_market_value |-> Some(current_market_value),
                       current_net_proceeds |-> Some(current_net_proceeds),
                       unrealized_pnl |-> Some(unrealized_pnl),
                       unrealized_pnl_pct |->
                          Some(IF r.total_cost_basis > 0
                               THEN Rat(unrealized_pnl * 100, r.total_cost_basis)
                               ELSE RInt(0)),
                       opportunity_difference |-> Some(unrealized_pnl - r.realized_pnl)]
        ELSE r @@ [current_price |-> None,
                   current_market_value |-> None,
                   current_net_proceeds |-> None,
                   unrealized_pnl |-> None,
                   unrealized_pnl_pct |-> None,
                   opportunity_difference |-> None]

\* The body of the loop of calculate_unrealized_pnl for one record (lines 153-188).
UnrealizedPnl(r, prices) ==
    LET current_price == PriceGet(prices, r.symbol)
    IN  IF current_price # None
        THEN LET current_market_value == r.shares_sold * current_price[1]
                 current_net_proceeds == current_market_value - r.fees
                 unrealized_pnl == current_net_proceeds - r.total_cost_basis
             IN  r @@ [current_price |-> Some(current_price[1]),
                       current_market_value |-> Some(current_market_value),
                       current_net_proceeds |-> Some(current_net_proceeds),
                       unrealized_pnl |-> Some(unrealized_pnl),
                       unrealized_pnl_pct |->
                          Some(IF r.total_cost_basis > 0
                               THEN Rat(unrealized_pnl * 100, r.total_cost_basis)
                               ELSE RInt(0)),
                       opportunity_difference |-> Some(unrealized_pnl - r.realized_pnl)]
        ELSE r @@ [current_price |-> None,
                   current_market_value |-> None,
                   current_net_proceeds |-> None,
                   unrealized_pnl |-> None,
                   unrealized_pnl_pct |-> None,
                   opportunity_difference |-> None]

\* get_current_prices(sell_symbols): a price or None for each symbol.
GetCurrentPrices ==
    /\ prog = "analyzer"
    /\ pc = "prices"
    /\ current_prices' \in [SellSymbols(sell_results) -> PriceOptions]
    /\ pc' = "unrealized"
    /\ UNCHANGED <<calls, accounts, prog, target, acct_i, todo, done, holdings, cur, prev,
                   acct_holdings, result, buy_queue, sell_results, exchange_rates,
                   fx_call, fx_result, raised,
                   fetches, valuation, series>>

\* calculate_unrealized_pnl(sell_results, current_prices)
CalculateUnrealizedPnl ==
    /\ prog = "analyzer"
    /\ pc = "unrealized"
    /\ sell_results' =
          [i \in 1..Len(sell_results) |-> UnrealizedPnl(sell_results[i], current_prices)]
    /\ pc' = "done"
    /\ UNCHANGED <<calls, accounts, prog, target, acct_i, todo, done, holdings, cur, prev,
                   acct_holdings, result, buy_queue, current_prices, exchange_rates,
                   fx_call, fx_result, raised,
                   fetches, valuation, series>>

InitSell == InitAnalyzer

NextSell ==
    \/ AnalyzeCollect \/ AnalyzeProcess \/ AnalyzeReturn
    \/ GetCurrentPrices \/ CalculateUnrealizedPnl

SpecSell == InitSell /\ [][NextSell]_vars

----------------------------------------------------------------------------
(* get_exchange_rates, convert_to_usd, convert_to_eur *)

\* The static fallback table of get_exchange_rates (lines 167-180): the rates to
\* USD under the keys the code stores them at, and the EUR_RATES sub-table.
FallbackRates ==
    [usd |-> [k \in {"USD", "EUR", "RON", "£", "¥"} |->
                CASE k = "USD" -> Rat(1, 1)
                  [] k = "EUR" -> Rat(110, 100)
                  [] k = "RON" -> Rat(22, 100)
                  [] k = "£" -> Rat(125, 100)
                  [] OTHER -> Rat(7, 1000)],
     eur |-> [k \in {"USD", "EUR", "RON", "GBP", "JPY"} |->
                CASE k = "USD" -> Rat(91, 100)
                  [] k = "EUR" -> Rat(1, 1)
                  [] k = "RON" -> Rat(20, 100)
                  [] k = "GBP" -> Rat(114, 100)
                  [] OTHER -> Rat(64, 10000)]]

\* What the rate source quotes when it answers: units of a currency per USD, per EUR.
QuotePerUsd(k) ==
    CASE k = "EUR" -> Rat(9, 10) [] k = "RON" -> Rat(9, 2) [] k = "GBP" -> Rat(4, 5)
      [] OTHER -> Rat(150, 1)
QuotePerEur(k) ==
    CASE k = "USD" -> Rat(10, 9) [] k = "RON" -> Rat(5, 1) [] k = "GBP" -> Rat(17, 20)
      [] OTHER -> Rat(160, 1)

\* How a fetch can end: the request raises, answers with a status other than
\* 200, or answers 200 with rates for some set of currencies.
FetchOutcomes(keys) ==
    {[kind |-> "raise", rates |-> {}], [kind |-> "status", rates |-> {}]}
    \cup {[kind |-> "ok", rates |-> ks] : ks \in SUBSET keys}

\* The key a rate to USD is stored at (lines 194-201).
UsdKey(k) == CASE k = "GBP" -> "£" [] k = "JPY" -> "¥" [] OTHER -> k

\* Lines 189-201: the USD table after the first fetch.
UsdTableAfter(table, fetch) ==
    IF fetch.kind # "ok" THEN table
    ELSE [k \in DOMAIN table |->
            IF \E q \in fetch.rates : UsdKey(q) = k
            THEN RDiv(RInt(1), QuotePerUsd(CHOOSE q \in fetch.rates : UsdKey(q) = k))
            ELSE table[k]]

\* Lines 205-221: the EUR table after the second fetch.
EurTableAfter(table, fetch) ==
    IF fetch.kind # "ok" THEN table
    ELSE [k \in fetch.rates \cup {"EUR"} |->
            IF k = "EUR" THEN Rat(1, 1) ELSE RDiv(RInt(1), QuotePerEur(k))]

\* get_exchange_rates without its static constants: a table that holds only
\* what the requests delivered.
ExchangeRatesLiveOnly(api_available, fetch_usd, fetch_eur) ==
    LET usd == IF api_available /\ fetch_usd.kind = "ok"
               THEN {UsdKey(q) : q \in fetch_usd.rates} ELSE {}
        eur == IF api_available /\ fetch_usd.kind # "raise" /\ fetch_eur.kind = "ok"
               THEN fetch_eur.rates ELSE {}
    IN  [usd |-> [k \in usd \cup {"USD"} |->
                    IF k = "USD" THEN Rat(1, 1)
                    ELSE RDiv(RInt(1), QuotePerUsd(CHOOSE q \in fetch_usd.rates : UsdKey(q) = k))],
         eur |-> [k \in eur \cup {"EUR"} |->
                    IF k = "EUR" THEN Rat(1, 1) ELSE RDiv(RInt(1), QuotePerEur(k))]]

\* get_exchange_rates(): the table returned, whatever the fetches do.  An
\* exception of the first fetch skips the second (one try block, lines 186-228).
ExchangeRatesFor(api_available, fetch_usd, fetch_eur) ==
    IF ~api_available THEN FallbackRates
    ELSE IF fetch_usd.kind = "raise" THEN FallbackRates
    ELSE [usd |-> UsdTableAfter(FallbackRates.usd, fetch_usd),
          eur |-> IF fetch_eur.kind = "raise" THEN FallbackRates.eur
                  ELSE EurTableAfter(FallbackRates.eur, fetch_eur)]

\* currency_map.get(from_currency, from_currency)
CurrencyCode(from_currency) ==
    CASE from_currency = "$" -> "USD"
      [] from_currency = "€" -> "EUR"
      [] from_currency = "RON" -> "RON"
      [] from_currency = "£" -> "GBP"
      [] from_currency = "¥" -> "JPY"
      [] OTHER -> from_currency

\* rates.get(code, 1.0)
RateGet(table, code) == IF code \in DOMAIN table THEN table[code] ELSE Rat(1, 1)

\* What a call that raises TypeError leaves in place of a number.
TypeError == <<"TypeError">>

\* convert_to_usd(value, from_currency, exchange_rates).  The table of rates to
\* USD is the top-level dict, which also holds the EUR table under the key
\* 'EUR_RATES' (line 173): for that text exchange_rates.get returns the nested
\* dict and value * dict raises TypeError (line 254).
convert_to_usd(value, from_currency, rates) ==
    IF value = RInt(0) THEN RInt(0)
    ELSE IF CurrencyCode(from_currency) = "USD" THEN value
    ELSE IF CurrencyCode(from_currency) = "EUR_RATES" THEN TypeError
    ELSE RMul(value, RateGet(rates.usd, CurrencyCode(from_currency)))

\* convert_to_eur left as the copy of convert_to_usd it was written from.
convert_to_eur_as_usd(value, from_currency, rates) ==
    IF value = RInt(0) THEN RInt(0)
    ELSE IF CurrencyCode(from_currency) = "USD" THEN value
    ELSE RMul(value, RateGet(rates.usd, CurrencyCode(from_currency)))

\* convert_to_eur(value, from_currency, exchange_rates)
convert_to_eur(value, from_currency, rates) ==
    IF value = RInt(0) THEN RInt(0)
    ELSE IF CurrencyCode(from_currency) = "EUR" THEN value
    ELSE RMul(value, RateGet(rates.eur, CurrencyCode(from_currency)))

\* The amounts and the currency texts the conversions are called with.
Amounts == {RInt(0), RInt(100), RInt(-7), Rat(5, 2)}
Currencies == {"$", "€", "RON", "£", "¥", "USD", "EUR", "GBP", "JPY", "CHF", "EUR_RATES"}

InitFx ==
    /\ accounts = Split(<<>>, 0)
    /\ InitCommon
    /\ prog = "fx"
    /\ pc = "rates"
    /\ target = <<>>
    /\ todo = <<>>

GetExchangeRates ==
    /\ prog = "fx"
    /\ pc = "rates"
    /\ \E api_available \in BOOLEAN :
       \E fetch_usd \in FetchOutcomes({"EUR", "RON", "GBP", "JPY"}) :
       \E fetch_eur \in FetchOutcomes({"USD", "RON", "GBP", "JPY"}) :
          /\ exchange_rates' = ExchangeRatesFor(api_available, fetch_usd, fetch_eur)
          /\ fetches' = [api_available |-> api_available, fetch_usd |-> fetch_usd,
                         fetch_eur |-> fetch_eur]
    /\ pc' = "convert"
    /\ UNCHANGED <<calls, accounts, prog, target, acct_i, todo, done, holdings, cur, prev,
                   acct_holdings, result, buy_queue, sell_results, current_prices,
                   fx_call, fx_result, raised, valuation, series>>

ConvertToUsd ==
    /\ prog = "fx"
    /\ pc = "convert"
    /\ \E value \in Amounts : \E from_currency \in Currencies :
          /\ fx_call' = [fn |-> "convert_to_usd", value |-> value,
                         currency |-> from_currency]
          /\ fx_result' = convert_to_usd(value, from_currency, exchange_rates)
    /\ UNCHANGED <<calls, accounts, prog, pc, target, acct_i, todo, done, holdings, cur, prev,
                   acct_holdings, result, buy_queue, sell_results, current_prices,
                   exchange_rates, raised,
                   fetches, valuation, series>>

ConvertToEur ==
    /\ prog = "fx"
    /\ pc = "convert"
    /\ \E value \in Amounts : \E from_currency \in Currencies :
          /\ fx_call' = [fn |-> "convert_to_eur", value |-> value,
                         currency |-> from_currency]
          /\ fx_result' = convert_to_eur(value, from_currency, exchange_rates)
    /\ UNCHANGED <<calls, accounts, prog, pc, target, acct_i, todo, done, holdings, cur, prev,
                   acct_holdings, result, buy_queue, sell_results, current_prices,
                   exchange_rates, raised,
                   fetches, valuation, series>>

NextFx == GetExchangeRates \/ ConvertToUsd \/ ConvertToEur

SpecFx == InitFx /\ [][NextFx]_vars

----------------------------------------------------------------------------
(* The FIFO lot ledger: claims C1 to C6, checked under Spec *)

RECURSIVE SharesOf(_, _, _)
\* The shares of the transactions of a type and a symbol in a list.
SharesOf(txs, type, symbol) ==
    IF txs = <<>> THEN 0
    ELSE (IF Head(txs).type = type /\ Head(txs).symbol = symbol THEN Head(txs).shares ELSE 0)
         + SharesOf(Tail(txs), type, symbol)

\* total_shares of a symbol in a holdings dict, 0 when it has no entry.
TotalSharesOf(h, symbol) == IF symbol \in DOMAIN h THEN h[symbol].total_shares ELSE 0

\* The last iteration processed a sell of more shares than the symbol held.
Oversold == cur # <<>> /\ cur.type = "sell" /\ cur.shares > SumShares(prev)

\* C1: at every point of a replay (the per-account and the global replay of
\* process_transactions, the cutoff replay), the total_shares of every symbol is
\* the sum of the shares bought so far minus the sum of the shares sold so far,
\* and is not negative.
C1_TotalSharesIsBoughtMinusSold ==
    \A symbol \in Symbols :
        /\ TotalSharesOf(holdings, symbol) =
              SharesOf(done, "buy", symbol) - SharesOf(done, "sell", symbol)
        /\ TotalSharesOf(holdings, symbol) >= 0

\* C2: a sell of more shares than the open lots of its symbol hold ends the
\* replay with an error; it is never clamped to the shares available.
C2_OversellIsRejected == Oversold => raised

\* C3: after a sell of more shares than are held, the lot queue of the symbol
\* is what it was before the sell: no lot has been popped or shrunk.
C3_OversellLeavesLotsUntouched == Oversold => LotsOf(holdings, cur.symbol) = prev

\* A sell of `sold` shares turns the queue `before` into `after` by FIFO: the
\* first k lots are gone, and either they account for all that was sold (or the
\* queue is exhausted) and the rest is untouched, or lot k+1 stays at the head,
\* reduced by exactly what remained to be sold, everything else about it and
\* all lots behind it unchanged.
IsFifoDrain(before, after, sold) ==
    \E k \in 0..Len(before) :
        LET gone == SumShares(SubSeq(before, 1, k))
        IN  /\ gone <= sold
            /\ \/ /\ gone = sold \/ k = Len(before)
                  /\ after = SubSeq(before, k + 1, Len(before))
               \/ /\ k < Len(before)
                  /\ gone < sold
                  /\ before[k + 1].shares > sold - gone
                  /\ after = <<[shares |-> before[k + 1].shares - (sold - gone),
                               price |-> before[k + 1].price,
                               date |-> before[k + 1].date]>>
                             \o SubSeq(before, k + 2, Len(before))

\* C4: a sell drains the lots of its symbol strictly from the head of the
\* queue; a head lot larger than what remains to be sold stays at the head with
\* its shares reduced by exactly that amount, its price and date unchanged, and
\* the lots behind it are unchanged.  The lots of the other symbols are untouched.
C4_SellDrainsFromHead ==
    (cur # <<>> /\ cur.type = "sell") =>
        IsFifoDrain(prev, LotsOf(holdings, cur.symbol), cur.shares)

\* A sell has removed the oldest lot whole and shrunk the next one.
C4_Witness ==
    /\ cur # <<>> /\ cur.type = "sell"
    /\ Len(prev) >= 2
    /\ Len(LotsOf(holdings, cur.symbol)) = Len(prev) - 1
    /\ LotsOf(holdings, cur.symbol)[1].shares < prev[2].shares
    /\ LotsOf(holdings, cur.symbol)[1].date = prev[2].date
    /\ prev[1].date # prev[2].date

\* The totals of a holding agree with its lots.
HoldingConsistent(h) ==
    /\ h.total_shares = SumShares(h.lots)
    /\ h.total_cost = SumCost(h.lots)
    /\ h.weighted_avg_cost =
          (IF h.total_shares = 0 THEN RInt(0) ELSE Rat(h.total_cost, h.total_shares))
    /\ RMul(h.weighted_avg_cost, RInt(h.total_shares)) = RInt(h.total_cost)

AllConsistent(h) == \A symbol \in DOMAIN h : HoldingConsistent(h[symbol])

\* C5: after every transaction of a replay, every holding (of the running
\* replay, of the holdings returned per account, globally and at the cutoff)
\* has total_shares = sum of its lots' shares, total_cost = sum of shares*price
\* over its lots, weighted_avg_cost = total_cost/total_shares (0 when
\* total_shares is 0), and so weighted_avg_cost*total_shares = total_cost.
C5_TotalsRecomputedFromLots ==
    /\ AllConsistent(holdings)
    /\ AllConsistent(result)
    /\ \A a \in DOMAIN acct_holdings : AllConsistent(acct_holdings[a])

\* After a partial sell, a holding with lots of two prices and an average cost
\* that is not a whole number.
C5_Witness ==
    /\ cur # <<>> /\ cur.type = "sell"
    /\ cur.symbol \in DOMAIN holdings
    /\ Len(holdings[cur.symbol].lots) = 2
    /\ Len(prev) = 2
    /\ holdings[cur.symbol].lots # prev
    /\ holdings[cur.symbol].weighted_avg_cost[2] # 1

\* The list a replay is given before any sorting: the transactions of the
\* account for the per-account replay, of all accounts for the others.
ReplayInput ==
    IF prog = "ledger" /\ pc = "account_replay"
    THEN accounts[AccountNames[acct_i]]
    ELSE AllTransactions(accounts, 1)

\* C6: every replay processes the transactions in ascending date order, those
\* of equal date in their input order, whatever the order of the input.
C6_ReplayInDateOrder ==
    /\ \A i, j \in 1..Len(done) :
          i < j => StrpTime(done[i].date) <= StrpTime(done[j].date)
    /\ \E at \in [1..Len(done) -> 1..Len(ReplayInput)] :
          /\ \A i \in 1..Len(done) : done[i] = ReplayInput[at[i]]
          /\ \A i, j \in 1..Len(done) :
                (i < j /\ done[i].date = done[j].date) => at[i] < at[j]

----------------------------------------------------------------------------
(* The sell analyzer: claims C7 to C9, checked under SpecSell *)

\* C7: the record of every sell has gross_proceeds = shares*price, net_proceeds
\* = gross_proceeds - fee, total_cost_basis = the cost of the lot slices the
\* sell took from the head of the queue, slices whose shares add up to exactly
\* the shares sold, and realized_pnl = net_proceeds - total_cost_basis; the
\* scenario Buy 10 @ 100, Buy 5 @ 120, Sell 12 @ 150 fee 5 gives 1240, 1800,
\* 1795 and 555 and leaves 3 shares at 120.
C7_SellRecordMatchesFifoSlices ==
    /\ (pc = "analyze" /\ cur # <<>> /\ cur.type = "sell") =>
          LET r == sell_results[Len(sell_results)]
          IN  /\ r.gross_proceeds = cur.shares * cur.price
              /\ r.net_proceeds = r.gross_proceeds - cur.fee
              /\ SumShares(prev) - SumShares(buy_queue) = cur.shares
              /\ r.total_cost_basis = SumCost(prev) - SumCost(buy_queue)
              /\ r.realized_pnl = r.net_proceeds - r.total_cost_basis
    /\ (accounts = Split(Scenario, Len(Scenario)) /\ pc = "analyze" /\ todo = <<>>) =>
          /\ Len(sell_results) = 1
          /\ sell_results[1].total_cost_basis = 1240
          /\ sell_results[1].gross_proceeds = 1800
          /\ sell_results[1].net_proceeds = 1795
          /\ sell_results[1].realized_pnl = 555
          /\ Len(buy_queue) = 1
          /\ buy_queue[1].shares = 3 /\ buy_queue[1].price = 120

\* The sell transactions of the portfolio, each with its account.
SellsOfInput == SelectSeq(CollectWithAccount(accounts, 1), LAMBDA t : t.type = "sell")

\* A record is the record of a sell transaction.
RecordOf(r, t) ==
    /\ r.symbol = t.symbol /\ r.sell_date = t.date /\ r.account = t.account
    /\ r.shares_sold = t.shares /\ r.sell_price = t.price /\ r.fees = t.fee

\* As many records of a sell transaction as the input holds copies of it.
OneRecordPerSell ==
    /\ Len(sell_results) = Len(SellsOfInput)
    /\ \A n \in 1..Len(SellsOfInput) :
          Cardinality({i \in 1..Len(sell_results) : RecordOf(sell_results[i], SellsOfInput[n])})
          = Cardinality({m \in 1..Len(SellsOfInput) : SellsOfInput[m] = SellsOfInput[n]})

\* analyze_sell_transactions has returned its records.
Analyzed == prog = "analyzer" /\ pc \in {"prices", "unrealized", "done"} /\ ~raised

\* C8 as stated: one record per sell of the input, the whole sequence of
\* records in chronological order of the sells, symbols mixed.
C8_RecordsChronological ==
    Analyzed =>
        /\ OneRecordPerSell
        /\ \A i, j \in 1..Len(sell_results) :
              i < j => StrpTime(sell_results[i].sell_date)
                       <= StrpTime(sell_results[j].sell_date)

\* C8, amended: one record per sell of the input; the records of one symbol
\* are contiguous and in chronological order of its sells.
C8_RecordsChronologicalPerSymbol ==
    Analyzed =>
        /\ OneRecordPerSell
        /\ \A i, j \in 1..Len(sell_results) :
              (i < j /\ sell_results[i].symbol = sell_results[j].symbol) =>
                  /\ StrpTime(sell_results[i].sell_date)
                     <= StrpTime(sell_results[j].sell_date)
                  /\ \A k \in i..j : sell_results[k].symbol = sell_results[i].symbol

\* Records returned for sells of two symbols, the earlier sell second.
C8_Witness ==
    /\ Analyzed
    /\ Len(sell_results) >= 2
    /\ sell_results[1].symbol # sell_results[2].symbol
    /\ StrpTime(sell_results[1].sell_date) > StrpTime(sell_results[2].sell_date)

UnrealizedFields(r) ==
    {r.current_price, r.current_market_value, r.current_net_proceeds,
     r.unrealized_pnl, r.unrealized_pnl_pct, r.opportunity_difference}

\* C9: after calculate_unrealized_pnl, the six fields current_price,
\* current_market_value, current_net_proceeds, unrealized_pnl,
\* unrealized_pnl_pct and opportunity_difference of a record are all None if
\* no current price is available for its symbol, and all numbers otherwise,
\* also when the price is 0.
C9_UnsetIffNoPrice ==
    (prog = "analyzer" /\ pc = "done" /\ ~raised) =>
        \A i \in 1..Len(sell_results) :
            LET r == sell_results[i]
            IN  IF PriceGet(current_prices, r.symbol) = None
                THEN UnrealizedFields(r) = {None}
                ELSE /\ None \notin UnrealizedFields(r)
                     /\ r.current_price = PriceGet(current_prices, r.symbol)

\* Two records after calculate_unrealized_pnl: one of a symbol priced at 0, with
\* a market value of 0, one of a symbol without a price.
C9_Witness ==
    /\ prog = "analyzer" /\ pc = "done"
    /\ \E i, j \in 1..Len(sell_results) :
          /\ sell_results[i].current_price = Some(0)
          /\ sell_results[i].current_market_value = Some(0)
          /\ sell_results[j].current_price = None

----------------------------------------------------------------------------
(* The currency converter: claim C10, checked under SpecFx *)

\* C10: convert_to_usd(x, "$") returns x and convert_to_eur(x, "€") returns x
\* for every amount and every rate table; both return 0 for the amount 0,
\* whatever the currency.
C10_IdentityOnBaseCurrency ==
    fx_call # <<>> =>
        /\ (fx_call.fn = "convert_to_usd" /\ fx_call.currency = "$") =>
              fx_result = fx_call.value
        /\ (fx_call.fn = "convert_to_eur" /\ fx_call.currency = "€") =>
              fx_result = fx_call.value
        /\ fx_call.value = RInt(0) => fx_result = RInt(0)

\* convert_to_eur(100, "€") has returned 100.
C10_Witness ==
    /\ fx_call # <<>>
    /\ fx_call.fn = "convert_to_eur" /\ fx_call.currency = "€"
    /\ fx_call.value = RInt(100)
    /\ fx_result = RInt(100)
    /\ exchange_rates.usd # FallbackRates.usd
    /\ exchange_rates.eur # FallbackRates.eur

----------------------------------------------------------------------------
(* The currency converter: claims C11 to C13, checked under SpecFx *)

\* The symbols and ISO codes of the currencies the converters know.
KnownCurrencies == {"$", "€", "RON", "£", "¥", "USD", "EUR", "GBP", "JPY"}

\* A value that is a number: a fraction <<numerator, denominator>>.
IsNumber(x) == Len(x) = 2 /\ x[1] \in Int /\ x[2] \in Nat \ {0}

\* C11: convert_to_usd and convert_to_eur return a number, without raising, for
\* every amount and every currency text under every table get_exchange_rates
\* returns; for a currency that is neither a known symbol nor a known code the
\* number returned is the amount itself.
C11_ConvertersAreTotal ==
    fx_call # <<>> =>
        /\ fx_result # TypeError
        /\ IsNumber(fx_result)
        /\ fx_call.currency \notin KnownCurrencies => fx_result = fx_call.value

\* The supported currencies other than USD, as the symbol and the code each is
\* passed to the converters with.
SupportedNonUsd == {<<"€", "EUR">>, <<"RON", "RON">>, <<"£", "GBP">>, <<"¥", "JPY">>}

\* C12: for EUR, RON, GBP and JPY, convert_to_usd returns the same value for the
\* symbol and for the ISO code of the currency, and that value is the amount
\* times the rate get_exchange_rates stored for the currency in the table of
\* rates to USD; the stored rate is never replaced by the default 1.0.
C12_SymbolAndCodeUseStoredRate ==
    (fx_call # <<>> /\ fx_call.fn = "convert_to_usd") =>
        \A c \in SupportedNonUsd :
            fx_call.currency \in {c[1], c[2]} =>
                /\ convert_to_usd(fx_call.value, c[1], exchange_rates)
                   = convert_to_usd(fx_call.value, c[2], exchange_rates)
                /\ fx_result = RMul(fx_call.value, exchange_rates.usd[UsdKey(c[2])])

\* Every request get_exchange_rates made has failed: it raised or it answered
\* with a status other than 200 (after a request that raises, no other is made).
SourceUnreachable ==
    /\ fetches # <<>>
    /\ fetches.api_available
    /\ fetches.fetch_usd.kind # "ok"
    /\ fetches.fetch_usd.kind = "raise" \/ fetches.fetch_eur.kind # "ok"

\* C13: with the rate source unreachable, get_exchange_rates raises nothing and
\* returns the static fallback constants, and convert_to_usd(100, "€") returns
\* 100 * 1.10 = 110.
C13_UnreachableSourceFallsBack ==
    SourceUnreachable =>
        /\ ~raised
        /\ exchange_rates = FallbackRates
        /\ convert_to_usd(RInt(100), "€", exchange_rates) = RInt(110)
        /\ (fx_call # <<>> /\ fx_call.fn = "convert_to_usd" /\ fx_call.currency = "€"
            /\ fx_call.value = RInt(100)) => fx_result = RInt(110)

\* The first request answered with an error status, the second raised, and
\* convert_to_usd(100, "€") has returned 110.
C13_Witness ==
    /\ SourceUnreachable
    /\ fetches.fetch_usd.kind = "status" /\ fetches.fetch_eur.kind = "raise"
    /\ fx_call # <<>> /\ fx_call.fn = "convert_to_usd" /\ fx_call.currency = "€"
    /\ fx_call.value = RInt(100)
    /\ fx_result = RInt(110)

----------------------------------------------------------------------------
(* compute_portfolio_performance as one call: replay to the cutoff, valuation *)

\* The replay loop of lines 1462-1498 over a whole list.
RECURSIVE ReplayToCutoff(_, _)
ReplayToCutoff(h, txs) ==
    IF txs = <<>> THEN h ELSE ReplayToCutoff(CutoffApply(h, Head(txs)), Tail(txs))

\* Lines 1433-1501: the holdings of the month <<month, year>>.
HoldingsAtCutoff(accts, tm) ==
    PruneHoldings(
        ReplayToCutoff(EmptyDict,
                       SortOrKeep(UpToCutoff(AllTransactions(accts, 1), TargetDate(tm)))))

\* holding['currency']: the currency of the buys of the symbol.  The
\* transactions of BBB carry currency '€', those of AAA carry none ('$', line 1468).
HoldingCurrency(symbol) == IF symbol = "BBB" THEN "€" ELSE "$"

\* What the price sources answer during one call: real_time_data (symbol ->
\* current_price, for some symbols), get_historical_price per symbol (a price or
\* None) and get_sp500_price (a price or None).
Quotes ==
    {[live |-> EmptyDict,
      hist |-> [s \in Symbols |-> None],
      sp500 |-> None],
     [live |-> ("AAA" :> 150),
      hist |-> [s \in Symbols |-> IF s = "AAA" THEN Some(50) ELSE None],
      sp500 |-> Some(2000)],
     [live |-> ("AAA" :> 200) @@ ("BBB" :> 150),
      hist |-> [s \in Symbols |-> IF s = "AAA" THEN Some(100) ELSE Some(200)],
      sp500 |-> Some(4000)]}

\* use_current_prices (lines 1419-1427).
UseCurrentPrices(tm) == tm[2] = Now[3] /\ tm[1] = Now[2]

\* The price lookup without the fallback of line 1534: no data, price 0.
CurrentPriceOrZero(symbol, holding, tm, quote) ==
    IF UseCurrentPrices(tm) /\ symbol \in DOMAIN quote.live
    THEN RInt(quote.live[symbol])
    ELSE IF quote.hist[symbol] # None THEN RInt(quote.hist[symbol][1])
    ELSE RInt(0)

\* Lines 1516-1535: the price a holding is valued at.
CurrentPrice(symbol, holding, tm, quote) ==
    IF UseCurrentPrices(tm) /\ symbol \in DOMAIN quote.live
    THEN RInt(quote.live[symbol])
    ELSE IF quote.hist[symbol] # None THEN RInt(quote.hist[symbol][1])
    ELSE holding.weighted_avg_cost

\* Lines 1537-1539: market_value of a holding.
MarketValue(symbol, holding, tm, quote, rates) ==
    RMul(RInt(holding.total_shares),
         convert_to_usd(CurrentPrice(symbol, holding, tm, quote),
                        HoldingCurrency(symbol), rates))

\* Lines 1543-1545: pct_gain_loss of a holding whose avg_cost is > 0.
PctGainLoss(symbol, holding, tm, quote) ==
    RDiv(RSub(CurrentPrice(symbol, holding, tm, quote), holding.weighted_avg_cost),
         holding.weighted_avg_cost)

\* The sum of a rational per symbol of a set.
RECURSIVE RSum(_, _, _, _)
RSum(symbols, h, tm, quote) ==
    IF symbols = {} THEN RInt(0)
    ELSE LET s == CHOOSE x \in symbols : TRUE
         IN  RAdd(PctGainLoss(s, h[s], tm, quote), RSum(symbols \ {s}, h, tm, quote))

RECURSIVE ValueSum(_, _, _, _, _)
ValueSum(symbols, h, tm, quote, rates) ==
    IF symbols = {} THEN RInt(0)
    ELSE LET s == CHOOSE x \in symbols : TRUE
         IN  RAdd(MarketValue(s, h[s], tm, quote, rates),
                  ValueSum(symbols \ {s}, h, tm, quote, rates))

\* The sum of the list divided by the number of holdings, counted or not.
AvgPctGainLossPerHolding(counted, h, tm, quote) ==
    IF counted # {}
    THEN RDiv(RSum(counted, h, tm, quote), RInt(Cardinality(DOMAIN h)))
    ELSE RInt(0)

\* Lines 1547-1551: the mean of holdings_gain_loss_list, 0 when it is empty.
AvgPctGainLoss(counted, h, tm, quote) ==
    IF counted # {}
    THEN RDiv(RSum(counted, h, tm, quote), RInt(Cardinality(counted)))
    ELSE RInt(0)

\* compute_portfolio_performance(portfolio_data, target_month, target_year,
\* exchange_rates): what it returns, with the holdings it was computed from.
ComputePortfolioPerformance(accts, tm, quote, rates) ==
    LET h == HoldingsAtCutoff(accts, tm)
        counted == {s \in DOMAIN h : h[s].weighted_avg_cost[1] > 0}
    IN  [date |-> TargetDate(tm),
         month |-> tm,
         holdings |-> h,
         quote |-> quote,
         market_values |-> [s \in DOMAIN h |-> MarketValue(s, h[s], tm, quote, rates)],
         pct_gain_loss |-> [s \in counted |-> PctGainLoss(s, h[s], tm, quote)],
         portfolio_value |-> ValueSum(DOMAIN h, h, tm, quote, rates),
         holdings_count |-> Cardinality(DOMAIN h),
         avg_pct_gain_loss |-> AvgPctGainLoss(counted, h, tm, quote)]

----------------------------------------------------------------------------
(* get_month_range_from_transactions and create_performance_analysis *)

\* The transactions of the portfolios the performance series is computed for:
\* buys and a sell of AAA from December 2023 on, one of them dated after the day
\* of the report, a buy of BBB, a buy of BBB dated "31-02-2024", which
\* strptime rejects, and shares of BBB received at the price 0.
PerfUniverse ==
    {Tx("AAA", "buy", 1, 100, 0, <<20, 12, 2023>>),
     Tx("AAA", "sell", 1, 150, 5, <<31, 12, 2023>>),
     Tx("BBB", "buy", 1, 100, 0, D1),
     Tx("AAA", "buy", 2, 200, 0, D2),
     Tx("BBB", "buy", 1, 100, 0, <<31, 2, 2024>>),
     Tx("AAA", "buy", 1, 100, 0, <<20, 3, 2024>>),
     Tx("BBB", "buy", 1, 0, 0, D2)}

\* The rates create_performance_analysis finds in portfolio_data (line 1619).
PerfRates == FallbackRates

\* Lines 1563-1572: the oldest of the dates that parse, None when there is none.
OldestDate(txs) ==
    LET parsed == {i \in 1..Len(txs) : Parses(txs[i].date)}
    IN  IF parsed = {} THEN None
        ELSE Some((CHOOSE i \in parsed :
                      \A j \in parsed : StrpTime(txs[i].date) <= StrpTime(txs[j].date)))

\* The loop condition with month < current month: the current month left out.
MonthLoopBeforeCurrent(year, month) ==
    year < Now[3] \/ (year = Now[3] /\ month < Now[2])

\* The condition of the while loop of line 1584.
MonthLoopGoesOn(year, month) ==
    year < Now[3] \/ (year = Now[3] /\ month <= Now[2])

\* The series reads the accounts as one merged list (lines 1436 and 1565), so one
\* split of each transaction list over the two accounts is enough.
InitPerf ==
    /\ \E n \in 0..MaxTx : \E txs \in [1..n -> PerfUniverse] :
          accounts = Split(txs, n \div 2)
    /\ InitCommon
    /\ prog = "performance"
    /\ pc = "oldest"
    /\ target = <<>>
    /\ todo = <<>>

\* Lines 1563-1582 (and 1610-1613): the oldest date is found; without one the
\* month list is empty and create_performance_analysis returns.
MonthRangeStart ==
    /\ prog = "performance"
    /\ pc = "oldest"
    /\ LET txs == AllTransactions(accounts, 1)
           oldest == OldestDate(txs)
       IN  IF oldest = None
           THEN /\ series' = [months |-> <<>>, rows |-> <<>>]
                /\ pc' = "done"
           ELSE /\ series' = [months |-> <<>>, rows |-> <<>>,
                              year |-> txs[oldest[1]].date[3],
                              month |-> txs[oldest[1]].date[2]]
                /\ pc' = "range"
    /\ UNCHANGED <<calls, accounts, prog, target, acct_i, todo, done, holdings, cur, prev,
                   acct_holdings, result, buy_queue, sell_results, current_prices,
                   exchange_rates, fx_call, fx_result, raised, fetches, valuation>>

\* One iteration of the while loop of lines 1584-1590.
MonthRangeStep ==
    /\ prog = "performance"
    /\ pc = "range"
    /\ MonthLoopGoesOn(series.year, series.month)
    /\ series' = [series EXCEPT
                    !.months = Append(@, <<series.year, series.month>>),
                    !.month = IF series.month + 1 > 12 THEN 1 ELSE series.month + 1,
                    !.year = IF series.month + 1 > 12 THEN series.year + 1
                             ELSE series.year]
    /\ UNCHANGED <<calls, accounts, prog, pc, target, acct_i, todo, done, holdings, cur, prev,
                   acct_holdings, result, buy_queue, sell_results, current_prices,
                   exchange_rates, fx_call, fx_result, raised, fetches, valuation>>

\* Lines 1592 and 1608-1630: the month list is returned; create_performance_analysis
\* returns if it is empty, else sets up the loop over the months.
MonthRangeReturn ==
    /\ prog = "performance"
    /\ pc = "range"
    /\ ~MonthLoopGoesOn(series.year, series.month)
    /\ IF series.months = <<>>
       THEN /\ series' = series
            /\ pc' = "done"
       ELSE /\ series' = [months |-> series.months, rows |-> <<>>,
                          year |-> series.year, month |-> series.month,
                          idx |-> 1,
                          previous_avg_pct_gain_loss |-> None,
                          previous_sp500_price |-> None,
                          cumulative_factor |-> RInt(1),
                          benchmark_factor |-> RInt(1)]
            /\ pc' = "rows"
    /\ UNCHANGED <<calls, accounts, prog, target, acct_i, todo, done, holdings, cur, prev,
                   acct_holdings, result, buy_queue, sell_results, current_prices,
                   exchange_rates, fx_call, fx_result, raised, fetches, valuation>>

\* monthly_return without the previous month: the month's avg_pct_gain_loss itself.
MonthlyReturnNoPrevious(avg_pct_gain_loss, previous_avg_pct_gain_loss) ==
    avg_pct_gain_loss

\* Lines 1657-1660: monthly_return.
MonthlyReturn(avg_pct_gain_loss, previous_avg_pct_gain_loss) ==
    IF previous_avg_pct_gain_loss # None
    THEN RSub(avg_pct_gain_loss, previous_avg_pct_gain_loss[1])
    ELSE avg_pct_gain_loss

\* Lines 1663-1666: sp500_monthly_return.
Sp500MonthlyReturn(sp500_price, previous_sp500_price) ==
    IF previous_sp500_price # None /\ previous_sp500_price[1] > 0
       /\ sp500_price # None /\ sp500_price[1] # 0
    THEN Rat(sp500_price[1] - previous_sp500_price[1], previous_sp500_price[1])
    ELSE RInt(0)

\* Returns added up instead of compounded: factor += monthly return.
CompoundAdditive(factor, monthly_return) == RAdd(factor, monthly_return)

\* Lines 1673-1674: factor *= (1 + monthly return).
Compound(factor, monthly_return) == RMul(factor, RAdd(RInt(1), monthly_return))

\* One iteration of the loop of line 1632: the row written and the tracking
\* values carried to the next iteration.
SeriesAfterRow(st, accts, quote) ==
    LET ym == st.months[st.idx]
        perf == ComputePortfolioPerformance(accts, <<ym[2], ym[1]>>, quote, PerfRates)
        sp500_price == quote.sp500
        monthly_return == MonthlyReturn(perf.avg_pct_gain_loss,
                                        st.previous_avg_pct_gain_loss)
        sp500_monthly_return == Sp500MonthlyReturn(sp500_price, st.previous_sp500_price)
        cumulative_factor == Compound(st.cumulative_factor, monthly_return)
        benchmark_factor == Compound(st.benchmark_factor, sp500_monthly_return)
        cumulative_return == RSub(cumulative_factor, RInt(1))
        benchmark_cumulative == RSub(benchmark_factor, RInt(1))
    IN  [st EXCEPT
            !.rows = Append(@, [month |-> ym,
                                portfolio_value |-> perf.portfolio_value,
                                avg_pct_gain_loss |-> perf.avg_pct_gain_loss,
                                monthly_return |-> monthly_return,
                                sp500_price |-> sp500_price,
                                sp500_monthly_return |-> sp500_monthly_return,
                                outperformance |-> RSub(monthly_return, sp500_monthly_return),
                                cumulative_return |-> cumulative_return,
                                benchmark_cumulative |-> benchmark_cumulative,
                                alpha |-> RSub(cumulative_return, benchmark_cumulative)]),
            !.idx = @ + 1,
            !.previous_avg_pct_gain_loss = Some(perf.avg_pct_gain_loss),
            !.previous_sp500_price =
                IF sp500_price # None /\ sp500_price[1] # 0 THEN sp500_price ELSE @,
            !.cumulative_factor = cumulative_factor,
            !.benchmark_factor = benchmark_factor]

\* The loop of lines 1632-1728, one month per step; the price sources answer
\* with one of Quotes.
SeriesRow ==
    /\ prog = "performance"
    /\ pc = "rows"
    /\ series.idx <= Len(series.months)
    /\ \E quote \in Quotes :
          /\ series' = SeriesAfterRow(series, accounts, quote)
          /\ valuation' = ComputePortfolioPerformance(
                              accounts,
                              <<series.months[series.idx][2], series.months[series.idx][1]>>,
                              quote, PerfRates)
    /\ UNCHANGED <<calls, accounts, prog, pc, target, acct_i, todo, done, holdings, cur, prev,
                   acct_holdings, result, buy_queue, sell_results, current_prices,
                   exchange_rates, fx_call, fx_result, raised, fetches>>

\* The loop has written a row for every month.
SeriesEnd ==
    /\ prog = "performance"
    /\ pc = "rows"
    /\ series.idx > Len(series.months)
    /\ pc' = "done"
    /\ UNCHANGED <<calls, accounts, prog, target, acct_i, todo, done, holdings, cur, prev,
                   acct_holdings, result, buy_queue, sell_results, current_prices,
                   exchange_rates, fx_call, fx_result, raised, fetches, valuation,
                   series>>

NextPerf ==
    \/ MonthRangeStart \/ MonthRangeStep \/ MonthRangeReturn
    \/ SeriesRow \/ SeriesEnd

SpecPerf == InitPerf /\ [][NextPerf]_vars

----------------------------------------------------------------------------
(* The performance series: claims C14, C16, C17 and C18, checked under SpecPerf *)

\* The i-th calendar month counted from the month om of the year oy, as <<year, month>>.
MonthFrom(oy, om, i) == <<oy + (om - 1 + i - 1) \div 12, ((om - 1 + i - 1) % 12) + 1>>

\* The number of calendar months from (oy, om) through the current month.
MonthsThroughNow(oy, om) == 12 * (Now[3] - oy) + (Now[2] - om) + 1

\* C14: for a portfolio whose earliest transaction is dated in the month
\* (oy, om), not after the current month (cy, cm), the month list is exactly the
\* 12*(cy-oy)+(cm-om)+1 consecutive calendar months from (oy, om) through
\* (cy, cm), in increasing order; while the loop runs the list is a prefix of
\* them, so the loop ends; and the series has one row per month, in that order.
C14_MonthRangeIsConsecutive ==
    (prog = "performance" /\ pc # "oldest"
     /\ OldestDate(AllTransactions(accounts, 1)) # None) =>
        LET txs == AllTransactions(accounts, 1)
            first == txs[OldestDate(txs)[1]].date
            n == MonthsThroughNow(first[3], first[2])
        IN  n >= 1 =>
              /\ Len(series.months) <= n
              /\ \A i \in 1..Len(series.months) :
                    series.months[i] = MonthFrom(first[3], first[2], i)
              /\ pc # "range" => Len(series.months) = n
              /\ pc = "range" =>
                    (MonthLoopGoesOn(series.year, series.month) <=> Len(series.months) < n)
              /\ Len(series.rows) <= Len(series.months)
              /\ \A i \in 1..Len(series.rows) : series.rows[i].month = series.months[i]
              /\ pc = "done" => Len(series.rows) = n

\* The series of a portfolio whose first transaction is of December 2023: four
\* months, across the turn of the year, and four rows.
C14_Witness ==
    /\ prog = "performance" /\ pc = "done"
    /\ series.months = <<<<2023, 12>>, <<2024, 1>>, <<2024, 2>>, <<2024, 3>>>>
    /\ Len(series.rows) = 4
    /\ series.rows[4].month = <<2024, 3>>

----------------------------------------------------------------------------
(* The replay to the cutoff: claims C15 and C20, checked under Spec *)

\* How many times a transaction occurs in a list.
Count(txs, t) == Cardinality({i \in 1..Len(txs) : txs[i] = t})

\* A date (one that parses) is on or before the cutoff of the target month: it
\* lies in an earlier month, or in the target month and, if that is the
\* current month, not after today.
OnOrBeforeCutoff(date, tm) ==
    \/ date[3] < tm[2]
    \/ date[3] = tm[2] /\ date[2] < tm[1]
    \/ /\ date[3] = tm[2] /\ date[2] = tm[1]
       /\ (tm[2] = Now[3] /\ tm[1] = Now[2]) => date[1] <= Now[1]

\* C15: the replay of compute_portfolio_performance for a month processes
\* exactly the transactions dated on or before the cutoff (the last day of the
\* month, today for the current month): each of them as often as the portfolio
\* holds it, none dated after the cutoff, and nothing else.
C15_ReplayExactlyUpToCutoff ==
    (prog = "cutoff" /\ pc # "collect") =>
        LET all == AllTransactions(accounts, 1)
            replay == done \o todo
        IN  /\ \A i \in 1..Len(all) :
                  Parses(all[i].date) =>
                      Count(replay, all[i]) =
                          IF OnOrBeforeCutoff(all[i].date, target)
                          THEN Count(all, all[i]) ELSE 0
            /\ \A j \in 1..Len(replay) : Count(all, replay[j]) > 0
            /\ pc = "done" => todo = <<>>

\* The replay for January 2024 has processed a transaction dated 31-01-2024 and
\* left out one dated in February.
C15_Witness ==
    /\ prog = "cutoff" /\ pc = "done" /\ target = <<1, 2024>>
    /\ \E i \in 1..Len(done) : done[i].date = <<31, 1, 2024>>
    /\ \E i \in 1..Len(AllTransactions(accounts, 1)) :
          /\ AllTransactions(accounts, 1)[i].date = D2
          /\ Count(done, AllTransactions(accounts, 1)[i]) = 0

\* C20: in the replay to the cutoff, a transaction whose date cannot be parsed
\* ends compute_portfolio_performance with an error; it is never left out of
\* the holdings of the month without one.
C20_UnparsableDateIsFatalAtCutoff ==
    (prog = "cutoff" /\ pc # "collect" /\ ~AllParse(AllTransactions(accounts, 1))) =>
        raised

----------------------------------------------------------------------------
(* The performance series: claims C16 to C18, checked under SpecPerf *)

\* C16: the monthly return of the first row of the series is that month's
\* avg_pct_gain_loss; the monthly return of every later row is its
\* avg_pct_gain_loss minus the avg_pct_gain_loss of the row just before it.
C16_MonthlyReturnIsDifference ==
    (prog = "performance" /\ pc \in {"rows", "done"}) =>
        \A i \in 1..Len(series.rows) :
            series.rows[i].monthly_return =
                IF i = 1 THEN series.rows[1].avg_pct_gain_loss
                ELSE RSub(series.rows[i].avg_pct_gain_loss,
                          series.rows[i - 1].avg_pct_gain_loss)

\* Three rows: a gain in the first month, and a second month whose return
\* differs from its avg_pct_gain_loss.
C16_Witness ==
    /\ prog = "performance" /\ pc \in {"rows", "done"}
    /\ Len(series.rows) >= 3
    /\ series.rows[1].avg_pct_gain_loss # RInt(0)
    /\ series.rows[2].monthly_return # series.rows[2].avg_pct_gain_loss
    /\ series.rows[3].monthly_return[1] < 0

\* (1 + r1) * ... * (1 + rn) for the returns of the first n rows, portfolio
\* (field monthly_return) or benchmark (field sp500_monthly_return).
RECURSIVE PortfolioProduct(_, _)
PortfolioProduct(rows, n) ==
    IF n = 0 THEN RInt(1)
    ELSE RMul(PortfolioProduct(rows, n - 1), RAdd(RInt(1), rows[n].monthly_return))

RECURSIVE BenchmarkProduct(_, _)
BenchmarkProduct(rows, n) ==
    IF n = 0 THEN RInt(1)
    ELSE RMul(BenchmarkProduct(rows, n - 1), RAdd(RInt(1), rows[n].sp500_monthly_return))

\* C17: in row n the cumulative return is (1 + r1) * ... * (1 + rn) - 1 over the
\* monthly returns of the rows 1..n, the benchmark cumulative return is the same
\* product over the benchmark's monthly returns, the cumulative return of the
\* first row is its monthly return, and alpha is the cumulative return minus
\* the benchmark cumulative return.
C17_CumulativeIsCompounded ==
    (prog = "performance" /\ pc \in {"rows", "done"}) =>
        /\ \A n \in 1..Len(series.rows) :
              /\ series.rows[n].cumulative_return =
                    RSub(PortfolioProduct(series.rows, n), RInt(1))
              /\ series.rows[n].benchmark_cumulative =
                    RSub(BenchmarkProduct(series.rows, n), RInt(1))
              /\ series.rows[n].alpha =
                    RSub(series.rows[n].cumulative_return,
                         series.rows[n].benchmark_cumulative)
        /\ Len(series.rows) >= 1 =>
              series.rows[1].cumulative_return = series.rows[1].monthly_return

\* Two months with a return each, for the portfolio and for the benchmark: the
\* compounded return differs from the sum of the returns.
C17_Witness ==
    /\ prog = "performance" /\ pc \in {"rows", "done"}
    /\ Len(series.rows) >= 3
    /\ series.rows[1].monthly_return # RInt(0)
    /\ series.rows[2].monthly_return # RInt(0)
    /\ series.rows[2].sp500_monthly_return # RInt(0)
    /\ series.rows[3].sp500_monthly_return # RInt(0)
    /\ series.rows[2].cumulative_return #
          RAdd(series.rows[1].monthly_return, series.rows[2].monthly_return)
    /\ series.rows[3].alpha # RInt(0)

\* No price is available for a symbol in the last valuation: real_time_data was
\* not consulted or does not hold it, and get_historical_price returned None.
Unpriced(symbol) ==
    /\ ~(UseCurrentPrices(valuation.month) /\ symbol \in DOMAIN valuation.quote.live)
    /\ valuation.quote.hist[symbol] = None

\* The market value the last valuation counted for a symbol, 0 if it is not held.
ValueCounted(symbol) ==
    IF symbol \in DOMAIN valuation.market_values
    THEN valuation.market_values[symbol] ELSE RInt(0)

\* C18: in a valuation, a held symbol with neither a live nor a historical price
\* is valued at its weighted average cost: it is part of the portfolio value
\* with total_shares * weighted_avg_cost converted to USD, its gain/loss is 0
\* (a holding whose cost is 0 has none), and nothing is raised.
C18_UnpricedHoldingValuedAtCost ==
    (prog = "performance" /\ valuation # <<>>) =>
        /\ ~raised
        /\ valuation.portfolio_value = RAdd(ValueCounted("AAA"), ValueCounted("BBB"))
        /\ \A s \in DOMAIN valuation.holdings :
              Unpriced(s) =>
                  LET h == valuation.holdings[s]
                  IN  /\ valuation.market_values[s] =
                            RMul(RInt(h.total_shares),
                                 convert_to_usd(h.weighted_avg_cost, HoldingCurrency(s),
                                                PerfRates))
                      /\ h.weighted_avg_cost[1] > 0 =>
                            /\ valuation.market_values[s][1] > 0
                            /\ valuation.pct_gain_loss[s] = RInt(0)

\* A valuation of two holdings: AAA, three shares at an average cost of 500/3,
\* has a historical price; BBB, held in euro, has no price and counts with its cost.
C18_Witness ==
    /\ prog = "performance" /\ valuation # <<>>
    /\ DOMAIN valuation.holdings = {"AAA", "BBB"}
    /\ Unpriced("BBB") /\ ~Unpriced("AAA")
    /\ valuation.holdings["AAA"].weighted_avg_cost = Rat(500, 3)
    /\ valuation.market_values["BBB"] = RInt(110)
    /\ valuation.pct_gain_loss["AAA"] # RInt(0)

----------------------------------------------------------------------------
(* The sort steps: claim C19, checked under SpecSell *)

\* C19: a sort-by-date step given a transaction whose date cannot be parsed
\* raises nothing and leaves the transactions in their input order: the sort of
\* analyze_sell_transactions, and those of load_portfolio_data and
\* compute_portfolio_performance.
C19_SortToleratesUnparsableDate ==
    /\ (prog = "analyzer" /\ pc # "collect"
        /\ ~AllParse(CollectWithAccount(accounts, 1))) =>
          /\ ~raised
          /\ pc = "analyze" =>
                done \o todo = GroupedBySymbol(CollectWithAccount(accounts, 1),
                                               SymbolOrder(CollectWithAccount(accounts, 1)))
    /\ (prog = "ledger" /\ pc = "global_replay"
        /\ ~AllParse(AllTransactions(accounts, 1))) =>
          /\ ~raised
          /\ done \o todo = AllTransactions(accounts, 1)
    /\ (prog = "cutoff" /\ pc = "cutoff_replay") => ~raised

----------------------------------------------------------------------------
(* The replay entry points called again and again on one portfolio *)

\* Largest number of calls made on one portfolio.
MaxCalls == 3

\* The portfolio is loaded, or valued at the cutoff of a month.
InitReplay ==
    /\ \E n \in 0..MaxTx : \E txs \in [1..n -> DateUniverse] : \E k \in 0..n :
          accounts = Split(txs, k)
    /\ InitCommon
    /\ \/ /\ prog = "ledger"
          /\ pc = "account_replay"
          /\ target = <<>>
          /\ todo = accounts[AccountNames[1]]
       \/ /\ prog = "cutoff"
          /\ pc = "collect"
          /\ target \in TargetMonths
          /\ todo = <<>>

\* The caller goes on after a call has returned: load_portfolio_data is called
\* (line 535), or compute_portfolio_performance for a month (the loop of line
\* 1632).  The locals of the call that returned are gone.
CallAgain ==
    /\ prog \in {"ledger", "cutoff"}
    /\ pc = "done"
    /\ Len(calls) < MaxCalls
    /\ \/ /\ prog' = "ledger"
          /\ pc' = "account_replay"
          /\ target' = <<>>
          /\ todo' = accounts[AccountNames[1]]
          /\ holdings' = NewHoldings
       \/ /\ prog' = "cutoff"
          /\ pc' = "collect"
          /\ target' \in TargetMonths
          /\ todo' = <<>>
          /\ holdings' = holdings
    /\ acct_i' = 1
    /\ acct_holdings' = EmptyDict
    /\ done' = <<>>
    /\ cur' = <<>>
    /\ prev' = <<>>
    /\ UNCHANGED <<calls, accounts, result, buy_queue, sell_results, current_prices,
                   exchange_rates, fx_call, fx_result, raised, fetches, valuation,
                   series>>

NextReplay ==
    \/ LedgerProcess \/ AccountReturn \/ SortGlobal \/ GlobalReturn
    \/ CutoffCollect \/ CutoffProcess \/ CutoffReturn
    \/ CallAgain

SpecReplay == InitReplay /\ [][NextReplay]_vars

\* C21: two calls of the same replay entry point on the same portfolio (two runs
\* of load_portfolio_data, or two calls of compute_portfolio_performance for the
\* same month, with whatever calls in between) return identical Holdings, the
\* per-account Holdings included: no lot of one replay is seen by another.
C21_ReplayIsRepeatable ==
    \A i \in 1..Len(calls) : \A j \in 1..Len(calls) :
        (calls[i].prog = calls[j].prog /\ calls[i].target = calls[j].target)
            => /\ calls[i].result = calls[j].result
               /\ calls[i].accounts = calls[j].accounts

\* Two calls for the same month have returned, with a call for something else
\* between them, and they returned a holding.
C21_Witness ==
    /\ Len(calls) >= 3
    /\ calls[1].prog = "cutoff"
    /\ calls[3].prog = "cutoff"
    /\ calls[1].target = calls[3].target
    /\ calls[2].target # calls[1].target
    /\ calls[1].result # EmptyDict
    /\ calls[3].result = calls[1].result

----------------------------------------------------------------------------
(* The benchmark of the performance series: claim C22, checked under SpecPerf *)

\* C22: the benchmark monthly return of every row after the first is
\* (close[m] - close[m-1]) / close[m-1], close[m-1] being the benchmark price
\* of the row just before it; where that row has no price the return is 0 and
\* never a return against the price of an older month.
C22_BenchmarkReturnAgainstPrecedingMonth ==
    (prog = "performance" /\ pc \in {"rows", "done"}) =>
        \A i \in 2..Len(series.rows) :
            LET close == series.rows[i].sp500_price
                before == series.rows[i - 1].sp500_price
            IN  series.rows[i].sp500_monthly_return =
                    IF close # None /\ before # None
                    THEN Rat(close[1] - before[1], before[1])
                    ELSE RInt(0)

----------------------------------------------------------------------------
(* The average gain of a valuation: claim C23, checked under SpecPerf *)

\* (current_price - avg_cost) / avg_cost of a symbol of the last valuation, the
\* price taken where the valuation takes it: real_time_data for the current
\* month, else the historical price, else the average cost.
GainRatio(symbol) ==
    LET h == valuation.holdings[symbol]
        current_price ==
            IF UseCurrentPrices(valuation.month) /\ symbol \in DOMAIN valuation.quote.live
            THEN RInt(valuation.quote.live[symbol])
            ELSE IF valuation.quote.hist[symbol] # None
                 THEN RInt(valuation.quote.hist[symbol][1])
                 ELSE h.weighted_avg_cost
    IN  RDiv(RSub(current_price, h.weighted_avg_cost), h.weighted_avg_cost)

\* The sum of the ratios of the symbols of a set (of at most two symbols).
GainRatioSum(symbols) ==
    RAdd(IF "AAA" \in symbols THEN GainRatio("AAA") ELSE RInt(0),
         IF "BBB" \in symbols THEN GainRatio("BBB") ELSE RInt(0))

----------------------------------------------------------------------------
(* The percentage of a sell record: claim C24, checked under SpecSell *)

\* C24 as stated: realized_pnl_pct of a sell record is the ratio realized_pnl /
\* total_cost_basis (1 for a sale at double the cost basis with no fee), and 0
\* when the cost basis is 0.
C24_PctIsRatioOfCostBasis ==
    \A i \in 1..Len(sell_results) :
        LET r == sell_results[i]
        IN  IF r.total_cost_basis > 0
            THEN RMul(r.realized_pnl_pct, RInt(r.total_cost_basis)) = RInt(r.realized_pnl)
            ELSE r.realized_pnl_pct = RInt(0)

\* C24: realized_pnl_pct of a sell record is realized_pnl / total_cost_basis
\* times 100, a percentage (100 for a sale at double the cost basis with no
\* fee), and 0 when the cost basis is 0.
C24_PctIsPercentOfCostBasis ==
    \A i \in 1..Len(sell_results) :
        LET r == sell_results[i]
        IN  IF r.total_cost_basis > 0
            THEN RMul(r.realized_pnl_pct, RInt(r.total_cost_basis)) =
                    RInt(100 * r.realized_pnl)
            ELSE r.realized_pnl_pct = RInt(0)

\* The sell of the scenario: 12 shares at 150 with a fee of 5 against a cost
\* basis of 1240, a gain of 555, which is 44.758... percent.
C24_Witness ==
    /\ prog = "analyzer"
    /\ Len(sell_results) = 1
    /\ sell_results[1].total_cost_basis = 1240
    /\ sell_results[1].realized_pnl = 555
    /\ sell_results[1].realized_pnl_pct = Rat(55500, 1240)

----------------------------------------------------------------------------
(* The two tables of get_exchange_rates: claim C25, checked under SpecFx *)

\* C25: in the table get_exchange_rates returns, the rates to USD and the rates
\* to EUR are in sync, whatever the two requests did: either both are the
\* static fallback constants or both come from the live source, never one of
\* each.
C25_UsdAndEurTablesInSync ==
    fetches # <<>> =>
        (exchange_rates.usd = FallbackRates.usd <=> exchange_rates.eur = FallbackRates.eur)

----------------------------------------------------------------------------
(* Dividends: claim C26, checked under Spec *)

\* total_cost of a symbol in a holdings dict, 0 when it has no entry.
TotalCostOf(h, symbol) == IF symbol \in DOMAIN h THEN h[symbol].total_cost ELSE 0

\* A list holds a Buy of the symbol.
Bought(txs, symbol) ==
    \E i \in 1..Len(txs) : txs[i].type = "buy" /\ txs[i].symbol = symbol

\* The replay loop is about to process a Dividend.
DividendNext ==
    /\ pc \in {"account_replay", "global_replay", "cutoff_replay"}
    /\ todo # <<>>
    /\ Head(todo).type = "dividend"

\* C26: a Dividend processed by a replay leaves the lots of every symbol, and
\* with them its total_shares and total_cost, as they were; and a symbol that
\* has a Dividend but was never bought is in no Holdings a replay returns (the
\* global ones, those at the cutoff, those of an account).
C26_DividendLeavesLotsUnchanged ==
    /\ [][DividendNext =>
            \A symbol \in Symbols :
                /\ LotsOf(holdings', symbol) = LotsOf(holdings, symbol)
                /\ TotalSharesOf(holdings', symbol) = TotalSharesOf(holdings, symbol)
                /\ TotalCostOf(holdings', symbol) = TotalCostOf(holdings, symbol)]_vars
    /\ [](/\ \A symbol \in DOMAIN result : Bought(AllTransactions(accounts, 1), symbol)
          /\ \A a \in DOMAIN acct_holdings : \A symbol \in DOMAIN acct_holdings[a] :
                Bought(accounts[a], symbol))

\* load_portfolio_data has returned for a portfolio with a Buy of AAA, then a
\* Dividend of AAA, and a Dividend of BBB, which was never bought: the global
\* Holdings hold AAA alone, with the lot of the Buy.
C26_Witness ==
    /\ prog = "ledger" /\ pc = "done"
    /\ Len(done) = 3
    /\ \E i \in 1..3 : done[i].type = "dividend" /\ done[i].symbol = "BBB"
    /\ \E i \in 1..2 : \E j \in (i + 1)..3 :
          /\ done[i].type = "buy" /\ done[i].symbol = "AAA"
          /\ done[j].type = "dividend" /\ done[j].symbol = "AAA"
    /\ DOMAIN result = {"AAA"}
    /\ Len(result["AAA"].lots) = 1
    /\ "BBB" \in DOMAIN holdings

----------------------------------------------------------------------------
(* The order of the lots: claim C27, checked under Spec *)

\* The lots of a holding are in date order, oldest first.
OldestFirst(lots) ==
    \A i, j \in 1..Len(lots) :
        (i < j /\ Parses(lots[i].date) /\ Parses(lots[j].date)) =>
            StrpTime(lots[i].date) <= StrpTime(lots[j].date)

\* The replay loop is about to process a Buy.
BuyNext ==
    /\ pc \in {"account_replay", "global_replay", "cutoff_replay"}
    /\ todo # <<>>
    /\ Head(todo).type = "buy"

\* C27: in every Holding a replay returns (global, at the cutoff, of an
\* account) the lots are ordered oldest first, their dates never decreasing;
\* and every Buy adds exactly one lot, at the tail of the queue of its symbol,
\* also when a lot of the same price and date is there already.
C27_LotsOldestFirst ==
    /\ [][BuyNext =>
            LotsOf(holdings', Head(todo).symbol) =
                Append(LotsOf(holdings, Head(todo).symbol),
                       [shares |-> Head(todo).shares, price |-> Head(todo).price,
                        date |-> Head(todo).date])]_vars
    /\ [](/\ \A symbol \in DOMAIN result : OldestFirst(result[symbol].lots)
          /\ \A a \in DOMAIN acct_holdings : \A symbol \in DOMAIN acct_holdings[a] :
                OldestFirst(acct_holdings[a][symbol].lots))

----------------------------------------------------------------------------
(* load_portfolio_data as one call: the global and the per-account Holdings *)

\* process_transactions(holdings_dict, transactions_list) (lines 401-439).
RECURSIVE ProcessTransactions(_, _)
ProcessTransactions(holdings_dict, transactions_list) ==
    IF transactions_list = <<>> THEN PruneHoldings(holdings_dict)
    ELSE ProcessTransactions(ProcessTransaction(holdings_dict, Head(transactions_list)),
                             Tail(transactions_list))

\* Lines 445-453: global_holdings_data of a portfolio.
GlobalHoldings(accts) ==
    ProcessTransactions(EmptyDict, SortOrKeep(AllTransactions(accts, 1)))

\* Lines 442-443: the holdings of an account.
AccountHoldings(accts, name) == ProcessTransactions(EmptyDict, accts[name])

----------------------------------------------------------------------------
(* The analyzer's queue and the ledger: claim C28, checked under SpecSell *)

\* The lots of the analyzer's queue as the ledger writes a lot.
AsLots(queue) ==
    [i \in 1..Len(queue) |->
        [shares |-> queue[i].shares, price |-> queue[i].price, date |-> queue[i].date]]

\* The analyzer has processed the last transaction of the symbol of cur.
SymbolFinished ==
    /\ prog = "analyzer" /\ ~raised
    /\ cur # <<>>
    /\ todo = <<>> \/ Head(todo).symbol # cur.symbol

\* C28: for a portfolio whose dates all parse, the queue of open lots the
\* analyzer is left with for a symbol after the symbol's last transaction holds
\* the lots (shares, price, date, in order) of that symbol in the global
\* Holdings of load_portfolio_data; the queue is empty exactly when the global
\* Holdings have no entry for the symbol.
C28_AnalyzerQueueMatchesLedger ==
    SymbolFinished =>
        /\ AsLots(buy_queue) = LotsOf(GlobalHoldings(accounts), cur.symbol)
        /\ buy_queue = <<>> <=> cur.symbol \notin DOMAIN GlobalHoldings(accounts)

\* The scenario analysed to its end: the sell of 12 has consumed the first lot
\* and split the second, and three shares at 120 are left in the queue and in
\* the global Holdings.
C28_Witness ==
    /\ SymbolFinished
    /\ cur.type = "sell"
    /\ Len(prev) = 2
    /\ AsLots(buy_queue) = <<[shares |-> 3, price |-> 120, date |-> <<10, 2, 2024>>]>>
    /\ GlobalHoldings(accounts)["AAA"].lots = AsLots(buy_queue)

----------------------------------------------------------------------------
(* The cutoff replay and the ledger: claim C29, checked under Spec *)

\* Every date of the portfolio parses and lies on or before the cutoff of the
\* target month.
AllUpToCutoff ==
    /\ AllParse(AllTransactions(accounts, 1))
    /\ \A i \in 1..Len(AllTransactions(accounts, 1)) :
          OnOrBeforeCutoff(AllTransactions(accounts, 1)[i].date, target)

\* C29: when every date of the portfolio parses and the cutoff of the target
\* month is on or after every one of them, the Holdings
\* compute_portfolio_performance rebuilds (symbols, lots in order, total_shares,
\* total_cost, weighted_avg_cost) are the global Holdings of load_portfolio_data.
C29_CutoffHoldingsAreGlobalHoldings ==
    (prog = "cutoff" /\ pc = "done" /\ AllUpToCutoff) =>
        result = GlobalHoldings(accounts)

\* The valuation of January for two shares of AAA bought on the cutoff day
\* itself, the 31st, given in the file before the share bought on the 15th:
\* both replays sort them, and the lot of the 15th is the first of the two.
C29_Witness ==
    /\ prog = "cutoff" /\ pc = "done" /\ AllUpToCutoff
    /\ target = <<1, 2024>>
    /\ Len(done) = 2
    /\ AllTransactions(accounts, 1)[1].date = <<31, 1, 2024>>
    /\ done[1].date = D1
    /\ done[2].date = <<31, 1, 2024>>
    /\ result["AAA"].total_shares = 3
    /\ Len(result["AAA"].lots) = 2
    /\ result = GlobalHoldings(accounts)

----------------------------------------------------------------------------
(* Global and per-account totals: claim C30, checked under Spec *)

\* C30: once load_portfolio_data has returned, the global total_shares of every
\* symbol is the sum over the accounts of the symbol's total_shares in the
\* account's Holdings, a symbol an account does not hold counting 0.
C30_GlobalSharesAreSumOfAccounts ==
    (prog = "ledger" /\ pc = "done") =>
        \A symbol \in Symbols :
            TotalSharesOf(result, symbol) =
                TotalSharesOf(acct_holdings[AccountNames[1]], symbol)
                + TotalSharesOf(acct_holdings[AccountNames[2]], symbol)

====
